---- MODULE Spec2Model ----
(***************************************************************************)
(* Model of the search-as-you-type core of Elianta/deel-test-task:         *)
(*   - debounce(func, delay)            src/src/utils/debounce.ts          *)
(*   - useFetchOnQueryChange(query, fetchData, delay)                      *)
(*                       src/src/components/Autocomplete/index.tsx:82-127  *)
(* The host environment (single-threaded event loop, setTimeout /          *)
(* clearTimeout, promise continuations) is modelled by a clock `now`, a    *)
(* table of host timers and a table of query-function calls.               *)
(*                                                                         *)
(*   - highlightMatch(text, query)      src/unnamed/part_002:1-13          *)
(*   - Autocomplete, getFruitListByQuery                                   *)
(*                       src/src/components/Autocomplete/index.tsx:8-77    *)
(* The specifications share the variables:                                 *)
(*   Spec          the controller (hook) driven by query changes           *)
(*   SpecDebounce  one debounced trigger driven directly by its callers    *)
(*   SpecHighlight one call of highlightMatch on bounded strings           *)
(*   FairSpec      Spec with a fair event loop and completing calls        *)
(*   SpecAutocomplete  the component: the hook, the mock api, focus        *)
(***************************************************************************)
EXTENDS Integers, Sequences, FiniteSets, TLC

\* ---------------------------------------------------------------- bounds
MaxTime == 3        \* the clock runs 0..MaxTime
MaxDelay == 2       \* delay is drawn from 1..MaxDelay
MaxCycles == 3      \* effect runs (mount + query changes) per controller
MaxEvents == 4      \* trigger/cancel calls made on the stand-alone trigger
MaxTextLen == 3     \* code units in highlightMatch's text
MaxQueryLen == 2    \* code units in highlightMatch's query

\* ------------------------------------------------------------ value sets
Queries == {"", "a", "ap"}
ArgSets == {<<"x">>, <<"y">>}

NoTimer == 0        \* timerId = null
NoArgs == <<>>      \* debouncedFetch() is called without arguments

Absent == [kind |-> "absent", call |-> 0]       \* null data / null error
Response(c) == [kind |-> "response", call |-> c] \* value call c resolves with
Failure(c) == [kind |-> "failure", call |-> c]   \* value call c rejects with

\* ------------------------------------------------------- highlightMatch
\* UTF-16 code units the strings are made of.  "Idot" is U+0130, whose
\* lower case is the two units "i", "dot" (U+0069 U+0307).
Chars == {"A", "a", "p", "i", "Idot"}

\* String.prototype.toLowerCase, one code unit
Lower(c) ==
    CASE c = "A" -> <<"a">>
      [] c = "Idot" -> <<"i", "dot">>
      [] OTHER -> <<c>>

\* String.prototype.toLowerCase
RECURSIVE ToLowerCase(_)
ToLowerCase(s) ==
    IF s = <<>> THEN <<>> ELSE Lower(Head(s)) \o ToLowerCase(Tail(s))

\* String.prototype.indexOf: 0-based index of the first match, or -1
IndexOf(s, sub) ==
    LET M == {i \in 0..(Len(s) - Len(sub)) :
                 SubSeq(s, i + 1, i + Len(sub)) = sub}
    IN  IF M = {} THEN -1 ELSE CHOOSE i \in M : \A j \in M : i <= j

\* String.prototype.substring(a, b): indexes clamped to 0..length, swapped
\* when a > b
Clamp(s, i) == IF i < 0 THEN 0 ELSE IF i > Len(s) THEN Len(s) ELSE i
Substring(s, a, b) ==
    LET x == Clamp(s, a)
        y == Clamp(s, b)
        lo == IF x <= y THEN x ELSE y
        hi == IF x <= y THEN y ELSE x
    IN  SubSeq(s, lo + 1, hi)

\* highlightMatch(text, query): the text itself, or the fragment
\* prefix, <strong>match</strong>, suffix
HighlightMatch(text, q) ==
    LET startIndex == IndexOf(ToLowerCase(text), ToLowerCase(q))
        endIndex == startIndex + Len(q)
    IN  IF startIndex = -1
        THEN [kind |-> "text", parts |-> <<text>>]
        ELSE [kind |-> "fragment",
              parts |-> <<Substring(text, 0, startIndex),
                          Substring(text, startIndex, endIndex),
                          Substring(text, endIndex, Len(text))>>]

RECURSIVE Strings(_)
Strings(n) ==
    IF n = 0 THEN {<<>>}
    ELSE LET S == Strings(n - 1)
         IN  S \cup {Append(s, c) : s \in S, c \in Chars}

NotCalled == [kind |-> "none", parts |-> <<>>]

VARIABLES
    now,        \* host clock
    delay,      \* the delay argument (debounce's, and the hook's)
    timers,     \* host timer table: setTimeout appends, ids are indexes
    \* --- controller
    mounted,    \* the host component is mounted
    query,      \* current query string (prop of the hook)
    data, loading, loaded, error,   \* the hook's four useState cells
    debs,       \* one entry per effect run: its debounced trigger + closure
    calls,      \* one entry per fetchData invocation
    \* --- stand-alone debounced trigger
    timerId,    \* the closure variable of debounce()
    log,        \* history of trigger calls, cancels and func executions
    \* --- highlightMatch
    hText,      \* argument text, a sequence of UTF-16 code units
    hQuery,     \* argument query
    hResult,    \* what the call returned
    \* --- Autocomplete
    focused     \* the input has the focus

vars == <<now, delay, timers, mounted, query, data, loading, loaded, error,
          debs, calls, timerId, log, hText, hQuery, hResult, focused>>

ctlVars == <<mounted, query, data, loading, loaded, error, debs, calls>>
visVars == <<data, loading, loaded, error>>
debVars == <<timerId, log>>
hlVars == <<hText, hQuery, hResult>>

\* ----------------------------------------------------------- host timers
\* setTimeout(cb, ms) at time t: a new armed timer; its id is its index.
SetTimeout(ts, cb, t, ms) ==
    Append(ts, [status |-> "armed", due |-> t + ms, cb |-> cb])

\* clearTimeout(id): an armed timer never fires; anything else is a no-op.
ClearTimeout(ts, id) ==
    IF id \in 1..Len(ts) /\ ts[id].status = "armed"
    THEN [ts EXCEPT ![id].status = "cleared"]
    ELSE ts

\* variant: the callback may run before the delay has elapsed
DueIgnoresDelay(id) ==
    /\ id \in 1..Len(timers)
    /\ timers[id].status = "armed"

\* The event loop may run timer id's callback.
Due(id) ==
    /\ id \in 1..Len(timers)
    /\ timers[id].status = "armed"
    /\ now >= timers[id].due

\* ------------------------------------------------------------- debounce
\* variant: a trigger whose handle is set does not arm again
DebouncedFunctionOnce(tid, ts, cb, t, ms) ==
    IF tid # NoTimer
    THEN [timerId |-> tid, timers |-> ts]
    ELSE LET ts2 == SetTimeout(ts, cb, t, ms)
         IN  [timerId |-> Len(ts2), timers |-> ts2]

\* variant: the pending timer is not cleared before re-arming
DebouncedFunctionNoClear(tid, ts, cb, t, ms) ==
    LET ts2 == SetTimeout(ts, cb, t, ms)
    IN  [timerId |-> Len(ts2), timers |-> ts2]

\* debouncedFunction(...args): clear a pending timer, arm a new one.
DebouncedFunction(tid, ts, cb, t, ms) ==
    LET ts1 == IF tid # NoTimer THEN ClearTimeout(ts, tid) ELSE ts
        ts2 == SetTimeout(ts1, cb, t, ms)
    IN  [timerId |-> Len(ts2), timers |-> ts2]

\* variant: cancel clears the timer but keeps the handle
DebounceCancelKeepsHandle(tid, ts) ==
    IF tid # NoTimer
    THEN [timerId |-> tid, timers |-> ClearTimeout(ts, tid)]
    ELSE [timerId |-> tid, timers |-> ts]

\* variant: cancel forgets the handle without clearing the timer
DebounceCancelNoClear(tid, ts) ==
    [timerId |-> NoTimer, timers |-> ts]

\* debouncedFunction.cancel()
DebounceCancel(tid, ts) ==
    IF tid # NoTimer
    THEN [timerId |-> NoTimer, timers |-> ClearTimeout(ts, tid)]
    ELSE [timerId |-> tid, timers |-> ts]

\* ------------------------------------------------- fetch-cycle action body
Visible == [data |-> data, loading |-> loading, loaded |-> loaded,
            error |-> error]

\* variant: the empty-query reset also clears error
ResetIdleClearsError(v) ==
    [v EXCEPT !.loaded = FALSE, !.data = Absent, !.loading = FALSE,
              !.error = Absent]

\* if (query === "") { setLoaded(false); setData(null); setLoading(false) }
ResetIdle(v) ==
    [v EXCEPT !.loaded = FALSE, !.data = Absent, !.loading = FALSE]

\* variant: error is cleared when a cycle starts loading
BeginLoadingClearsError(v) ==
    [v EXCEPT !.loaded = FALSE, !.loading = TRUE, !.data = Absent,
              !.error = Absent]

\* variant: loaded is not reset when a cycle starts loading
BeginLoadingKeepsLoaded(v) ==
    [v EXCEPT !.loading = TRUE, !.data = Absent]

\* setLoaded(false); setLoading(true); setData(null);
BeginLoading(v) ==
    [v EXCEPT !.loaded = FALSE, !.loading = TRUE, !.data = Absent]

\* variant: a success does not reset error
TryBlockKeepsError(v, r) ==
    [v EXCEPT !.data = r]

\* try: setData(response); setError(null);
TryBlock(v, r) ==
    [v EXCEPT !.data = r, !.error = Absent]

\* variant: try/finally without a catch clause
CatchBlockMissing(v, e) ==
    [caught |-> FALSE, v |-> v]

\* catch (err): setError(err)   -- the exception is consumed here
CatchBlock(v, e) ==
    [caught |-> TRUE, v |-> [v EXCEPT !.error = e]]

\* variant: the finally block does not set loaded
FinallyBlockSkipsLoaded(v) ==
    [v EXCEPT !.loading = FALSE]

\* finally: setLoading(false); setLoaded(true);
FinallyBlock(v) ==
    [v EXCEPT !.loading = FALSE, !.loaded = TRUE]

\* continuation after `await fetchData(query)` fulfils with r
OnResolve(v, r) == FinallyBlock(TryBlock(v, r))

\* continuation after fetchData throws / its promise rejects with e:
\* the new visible state and the state of the action's own promise
OnReject(v, e) ==
    LET c == CatchBlock(v, e)
    IN  [v |-> FinallyBlock(c.v),
         promise |-> IF c.caught THEN "fulfilled" ELSE "rejected"]

SetVisible(v) ==
    /\ data' = v.data
    /\ loading' = v.loading
    /\ loaded' = v.loaded
    /\ error' = v.error

\* ----------------------------------------------------------- controller
\* variant: the action closes over the query of the previous render
EffectSetupStaleClosure(ds, ts, q, t, ms) ==
    LET d == DebouncedFunction(NoTimer, ts,
                               [deb |-> Len(ds) + 1, args |-> NoArgs], t, ms)
        old == IF ds = <<>> THEN q ELSE ds[Len(ds)].query
    IN  [debs |-> Append(ds, [query |-> old, at |-> t, timerId |-> d.timerId,
                              promise |-> "none"]),
         timers |-> d.timers]

\* The effect body of one run: const debouncedFetch = debounce(...);
\* debouncedFetch();  The closure captures the query of this render.
EffectSetup(ds, ts, q, t, ms) ==
    LET d == DebouncedFunction(NoTimer, ts,
                               [deb |-> Len(ds) + 1, args |-> NoArgs], t, ms)
    IN  [debs |-> Append(ds, [query |-> q, at |-> t, timerId |-> d.timerId,
                              promise |-> "none"]),
         timers |-> d.timers]

\* variant: the effect returns no cleanup
EffectCleanupNone(ds, ts) ==
    [debs |-> ds, timers |-> ts]

\* The effect cleanup of the latest run: debouncedFetch.cancel()
EffectCleanup(ds, ts) ==
    LET n == Len(ds)
        d == DebounceCancel(ds[n].timerId, ts)
    IN  [debs |-> [ds EXCEPT ![n].timerId = d.timerId], timers |-> d.timers]

Init ==
    /\ now = 0
    /\ delay \in 1..MaxDelay
    /\ mounted = TRUE
    /\ query \in Queries
    /\ data = Absent
    /\ loading = FALSE
    /\ loaded = FALSE
    /\ error = Absent
    /\ LET e == EffectSetup(<<>>, <<>>, query, 0, delay)
       IN  debs = e.debs /\ timers = e.timers
    /\ calls = <<>>
    /\ timerId = NoTimer
    /\ log = <<>>
    /\ hText = <<>>
    /\ hQuery = <<>>
    /\ hResult = NotCalled
    /\ focused = FALSE

\* The clock advances.
Tick ==
    /\ now < MaxTime
    /\ now' = now + 1
    /\ UNCHANGED <<delay, timers, ctlVars, debVars, hlVars, focused>>

\* The query prop changes: cleanup of the previous effect run, then the
\* effect body runs again with the new query.
SetQuery(q) ==
    /\ mounted
    /\ q # query
    /\ Len(debs) < MaxCycles
    /\ query' = q
    /\ LET c == EffectCleanup(debs, timers)
           e == EffectSetup(c.debs, c.timers, q, now, delay)
       IN  debs' = e.debs /\ timers' = e.timers
    /\ UNCHANGED <<now, delay, mounted, visVars, calls, debVars,
                   hlVars, focused>>

\* variant: unmounting runs no cleanup
UnmountNoCleanup ==
    /\ mounted
    /\ mounted' = FALSE
    /\ UNCHANGED <<now, delay, timers, query, visVars, debs, calls,
                   debVars, hlVars, focused>>

\* The component unmounts: the cleanup of the last effect run.
Unmount ==
    /\ mounted
    /\ mounted' = FALSE
    /\ LET c == EffectCleanup(debs, timers)
       IN  debs' = c.debs /\ timers' = c.timers
    /\ UNCHANGED <<now, delay, query, visVars, calls, debVars,
                   hlVars, focused>>

IsCtlTimer(id) == Due(id) /\ timers[id].cb.deb # 0

\* A timer fires and the closure's query is "": reset to idle, return.
FireEmpty(id) ==
    /\ IsCtlTimer(id)
    /\ LET d == timers[id].cb.deb IN
         /\ debs[d].query = ""
         /\ SetVisible(ResetIdle(Visible))
         /\ debs' = [debs EXCEPT ![d].promise = "fulfilled"]
    /\ timers' = [timers EXCEPT ![id].status = "fired"]
    /\ UNCHANGED <<now, delay, mounted, query, calls, debVars,
                   hlVars, focused>>

\* A timer fires, query non-empty: mark loading, call fetchData(query),
\* which returns a pending promise; the action suspends at the await.
FireDispatch(id) ==
    /\ IsCtlTimer(id)
    /\ LET d == timers[id].cb.deb IN
         /\ debs[d].query # ""
         /\ SetVisible(BeginLoading(Visible))
         /\ debs' = [debs EXCEPT ![d].promise = "pending"]
         /\ calls' = Append(calls, [deb |-> d, arg |-> debs[d].query,
                                    status |-> "inflight"])
    /\ timers' = [timers EXCEPT ![id].status = "fired"]
    /\ UNCHANGED <<now, delay, mounted, query, debVars, hlVars, focused>>

\* A timer fires, query non-empty, and fetchData throws synchronously:
\* catch and finally run in the same callback.
FireThrow(id) ==
    /\ IsCtlTimer(id)
    /\ LET d == timers[id].cb.deb
           c == Len(calls) + 1
           r == OnReject(BeginLoading(Visible), Failure(c))
       IN
         /\ debs[d].query # ""
         /\ SetVisible(r.v)
         /\ debs' = [debs EXCEPT ![d].promise = r.promise]
         /\ calls' = Append(calls, [deb |-> d, arg |-> debs[d].query,
                                    status |-> "threw"])
    /\ timers' = [timers EXCEPT ![id].status = "fired"]
    /\ UNCHANGED <<now, delay, mounted, query, debVars, hlVars, focused>>

\* variant: the continuation of a superseded or torn-down cycle is dropped
ResolveIgnoresStale(c) ==
    /\ c \in 1..Len(calls)
    /\ calls[c].status = "inflight"
    /\ calls' = [calls EXCEPT ![c].status = "resolved"]
    /\ IF mounted /\ calls[c].deb = Len(debs)
       THEN SetVisible(OnResolve(Visible, Response(c)))
       ELSE UNCHANGED visVars
    /\ debs' = [debs EXCEPT ![calls[c].deb].promise = "fulfilled"]
    /\ UNCHANGED <<now, delay, timers, mounted, query, debVars,
                   hlVars, focused>>

\* The promise of call c fulfils; the action resumes after the await.
Resolve(c) ==
    /\ c \in 1..Len(calls)
    /\ calls[c].status = "inflight"
    /\ calls' = [calls EXCEPT ![c].status = "resolved"]
    /\ SetVisible(OnResolve(Visible, Response(c)))
    /\ debs' = [debs EXCEPT ![calls[c].deb].promise = "fulfilled"]
    /\ UNCHANGED <<now, delay, timers, mounted, query, debVars,
                   hlVars, focused>>

\* The promise of call c rejects; the action resumes in the catch block.
Reject(c) ==
    /\ c \in 1..Len(calls)
    /\ calls[c].status = "inflight"
    /\ calls' = [calls EXCEPT ![c].status = "rejected"]
    /\ LET r == OnReject(Visible, Failure(c)) IN
         /\ SetVisible(r.v)
         /\ debs' = [debs EXCEPT ![calls[c].deb].promise = r.promise]
    /\ UNCHANGED <<now, delay, timers, mounted, query, debVars,
                   hlVars, focused>>

Next ==
    \/ Tick
    \/ \E q \in Queries : SetQuery(q)
    \/ Unmount
    \/ \E id \in 1..Len(timers) : FireEmpty(id)
    \/ \E id \in 1..Len(timers) : FireDispatch(id)
    \/ \E id \in 1..Len(timers) : FireThrow(id)
    \/ \E c \in 1..Len(calls) : Resolve(c)
    \/ \E c \in 1..Len(calls) : Reject(c)

Spec == Init /\ [][Next]_vars

\* ------------------------------------------- stand-alone debounced trigger
\* const t = debounce(func, delay), where func records its arguments.
InitDebounce ==
    /\ now = 0
    /\ delay \in 1..MaxDelay
    /\ timers = <<>>
    /\ mounted = FALSE
    /\ query = ""
    /\ data = Absent
    /\ loading = FALSE
    /\ loaded = FALSE
    /\ error = Absent
    /\ debs = <<>>
    /\ calls = <<>>
    /\ timerId = NoTimer
    /\ log = <<>>
    /\ hText = <<>>
    /\ hQuery = <<>>
    /\ hResult = NotCalled
    /\ focused = FALSE

CallerEvents == {k \in 1..Len(log) : log[k].type \in {"call", "cancel"}}

\* t(...a)
Trigger(a) ==
    /\ Cardinality(CallerEvents) < MaxEvents
    /\ LET d == DebouncedFunction(timerId, timers,
                                  [deb |-> 0, args |-> a], now, delay)
       IN  /\ timerId' = d.timerId
           /\ timers' = d.timers
           /\ log' = Append(log, [type |-> "call", t |-> now, args |-> a,
                                  timer |-> d.timerId])
    /\ UNCHANGED <<now, delay, ctlVars, hlVars, focused>>

\* t.cancel()
CancelCall ==
    /\ Cardinality(CallerEvents) < MaxEvents
    /\ LET d == DebounceCancel(timerId, timers)
       IN  /\ timerId' = d.timerId
           /\ timers' = d.timers
           /\ log' = Append(log, [type |-> "cancel", t |-> now,
                                  args |-> NoArgs, timer |-> timerId])
    /\ UNCHANGED <<now, delay, ctlVars, hlVars, focused>>

\* The timer callback runs: func(...args).  timerId is left as it is.
FireFunc(id) ==
    /\ Due(id)
    /\ timers[id].cb.deb = 0
    /\ timers' = [timers EXCEPT ![id].status = "fired"]
    /\ log' = Append(log, [type |-> "exec", t |-> now,
                           args |-> timers[id].cb.args, timer |-> id])
    /\ UNCHANGED <<now, delay, ctlVars, timerId, hlVars, focused>>

NextDebounce ==
    \/ Tick
    \/ \E a \in ArgSets : Trigger(a)
    \/ CancelCall
    \/ \E id \in 1..Len(timers) : FireFunc(id)

SpecDebounce == InitDebounce /\ [][NextDebounce]_vars

\* ======================================================================
\*                       properties of the controller
\* ======================================================================
Cycles == 1..Len(debs)
Calls == 1..Len(calls)
TimerOf(d) == CHOOSE id \in 1..Len(timers) : timers[id].cb.deb = d
CycleFired(d) == timers[TimerOf(d)].status = "fired"
CallsOf(d) == {c \in Calls : calls[c].deb = d}
Superseded(d) == d < Len(debs)

\* call c completes (its promise settles) in this step
Settles(c) ==
    /\ c \in Calls
    /\ calls[c].status = "inflight"
    /\ calls'[c].status # "inflight"
ResolvesNow(c) == Settles(c) /\ calls'[c].status = "resolved"
RejectsNow(c) == Settles(c) /\ calls'[c].status = "rejected"
\* fetchData throws synchronously in this step, as call number c
ThrowsNow(c) ==
    /\ c = Len(calls) + 1
    /\ Len(calls') = c
    /\ calls'[c].status = "threw"

VisibleUnchanged ==
    /\ data' = data
    /\ error' = error
    /\ loading' = loading
    /\ loaded' = loaded

\* C1 (as claimed): the completion of a call whose cycle has been
\* superseded by a newer query change never changes data, error, loading
\* or loaded.
C1_StaleNeverWrites ==
    [][\A c \in Calls :
         (Settles(c) /\ Superseded(calls[c].deb)) => VisibleUnchanged]_vars

\* C2 (as claimed): once the latest cycle, for a non-empty query, has been
\* dispatched and every call has completed, data/error are the outcome of
\* the call made for the latest cycle.
Quiescent ==
    /\ query # ""
    /\ CycleFired(Len(debs))
    /\ \A c \in Calls : calls[c].status # "inflight"

C2_LatestOutcomeWins ==
    Quiescent =>
        \A c \in CallsOf(Len(debs)) :
            /\ calls[c].status = "resolved" =>
                   data = Response(c) /\ error = Absent
            /\ calls[c].status \in {"rejected", "threw"} =>
                   error = Failure(c) /\ data = Absent

\* C3: two successive query changes less than delay apart: the first
\* cycle's timer is cleared before it fires, its action body never runs,
\* fetchData is never called for it, and when the second cycle has fired
\* exactly one of the two cycles was dispatched, with the second query.
RapidPair(d) ==
    /\ d \in Cycles
    /\ d + 1 \in Cycles
    /\ debs[d + 1].at - debs[d].at < delay

C3_RapidChangeCancelsFirst ==
    \A d \in Cycles :
        RapidPair(d) =>
            /\ timers[TimerOf(d)].status = "cleared"
            /\ debs[d].promise = "none"
            /\ CallsOf(d) = {}
            /\ CycleFired(d + 1) =>
                 /\ Cardinality({e \in {d, d + 1} : CycleFired(e)}) = 1
                 /\ \A c \in CallsOf(d) \cup CallsOf(d + 1) :
                        calls[c].arg = debs[d + 1].query

C3_Witness ==
    \E d \in Cycles :
        /\ RapidPair(d)
        /\ debs[d + 1].at > debs[d].at
        /\ debs[d].query # ""
        /\ now >= debs[d].at + delay
        /\ \E c \in CallsOf(d + 1) : calls[c].arg = debs[d + 1].query

\* C6 (as claimed): when the cycle of an empty query has fired and the
\* query is still "", the visible state is idle (data absent, loading
\* false, loaded false), and fetchData is never called with "".
C6_EmptyQueryIdle ==
    /\ \A c \in Calls : calls[c].arg # ""
    /\ (mounted /\ query = "" /\ CycleFired(Len(debs))) =>
           (data = Absent /\ ~loading /\ ~loaded)

\* C7 (as claimed): after a rejection (or throw) of call c with error E
\* is handled the visible state is exactly data absent, error = E,
\* loading false, loaded true.
C7_RejectionState ==
    [][\A c \in 1..(Len(calls) + 1) :
         (RejectsNow(c) \/ ThrowsNow(c)) =>
             /\ data' = Absent
             /\ error' = Failure(c)
             /\ ~loading'
             /\ loaded']_vars

\* C8: after the resolution of call c with result R is handled the
\* visible state is data = R, error absent, loading false, loaded true.
C8_ResolutionState ==
    [][\A c \in Calls :
         ResolvesNow(c) =>
             /\ data' = Response(c)
             /\ error' = Absent
             /\ ~loading'
             /\ loaded']_vars

C8_Witness ==
    \E c \in Calls, b \in Calls :
        /\ b < c
        /\ calls[b].status \in {"rejected", "threw"}
        /\ calls[c].status = "resolved"
        /\ data = Response(c)
        /\ error = Absent
        /\ loaded /\ ~loading

\* C9: loading and loaded are never both true.
C9_NotLoadingAndLoaded == ~(loading /\ loaded)

C9_Witness ==
    /\ loading
    /\ ~loaded
    /\ \E c \in Calls : calls[c].status \in {"resolved", "rejected"}
    /\ \E c \in Calls : calls[c].status = "inflight"

\* C10: a rejection or throw of fetchData is caught inside the
\* fetch-cycle action: the action's own promise fulfils (never rejects),
\* error holds the rejection value and loading is false; the controller
\* is not stopped by it.
C10_RejectionCaught ==
    [][\A c \in 1..(Len(calls) + 1) :
         (RejectsNow(c) \/ ThrowsNow(c)) =>
             /\ error' = Failure(c)
             /\ ~loading'
             /\ debs'[calls'[c].deb].promise = "fulfilled"
             /\ mounted' = mounted
             /\ \A d \in Cycles : debs'[d].promise # "rejected"]_vars

C10_Witness ==
    \E c \in Calls :
        /\ calls[c].status \in {"rejected", "threw"}
        /\ error = Failure(c)
        /\ ~loading
        /\ mounted
        /\ Superseded(calls[c].deb)
        /\ CycleFired(calls[c].deb)
        /\ timers[TimerOf(Len(debs))].status = "armed"

\* ======================================================================
\*                  properties of one debounced trigger
\* ======================================================================
Events == 1..Len(log)
CallIdx == {k \in Events : log[k].type = "call"}
CancelIdx == {k \in Events : log[k].type = "cancel"}
ExecIdx == {k \in Events : log[k].type = "exec"}
ExecsOf(k) == {j \in ExecIdx : log[j].timer = log[k].timer}
Min(S) == CHOOSE x \in S : \A y \in S : x <= y
Max(S) == CHOOSE x \in S : \A y \in S : x >= y
NextCall(k) ==
    LET S == {j \in CallIdx : j > k} IN IF S = {} THEN 0 ELSE Min(S)
PrevCall(k) ==
    LET S == {j \in CallIdx : j < k} IN IF S = {} THEN 0 ELSE Max(S)

\* C4: in a burst of trigger calls, each less than delay after the
\* previous one, no call but the last leads to an execution of func; the
\* last call's timer, once fired, has executed func exactly once, with the
\* last call's arguments and not before delay has elapsed.
C4_BurstExecutesOnce ==
    /\ \A k \in CallIdx :
         LET E == ExecsOf(k)
             n == NextCall(k)
         IN  /\ Cardinality(E) <= 1
             /\ \A j \in E : /\ j > k
                             /\ log[j].args = log[k].args
                             /\ log[j].t >= log[k].t + delay
             /\ (n # 0 /\ log[n].t - log[k].t < delay) => E = {}
             /\ timers[log[k].timer].status = "fired" => Cardinality(E) = 1
    /\ \A j \in ExecIdx : \E k \in CallIdx : log[k].timer = log[j].timer

C4_Witness ==
    \E k \in CallIdx, m \in CallIdx, n \in CallIdx :
        /\ k < m /\ m < n
        /\ PrevCall(k) = 0 /\ NextCall(k) = m
        /\ NextCall(m) = n /\ NextCall(n) = 0
        /\ CancelIdx = {}
        /\ log[m].t - log[k].t < delay
        /\ log[n].t - log[m].t < delay
        /\ log[n].t > log[k].t
        /\ log[n].args # log[m].args
        /\ ExecIdx # {}
        /\ \A j \in ExecIdx : log[j].args = log[n].args /\ j > n

\* C5: a cancel made strictly before delay has elapsed since the last
\* trigger call clears that call's timer: func never executes for it, and
\* any later execution follows a later trigger call.
EarlyCancel(k) ==
    /\ k \in CancelIdx
    /\ PrevCall(k) # 0
    /\ log[k].t < log[PrevCall(k)].t + delay

C5_CancelSuppresses ==
    \A k \in CancelIdx :
        EarlyCancel(k) =>
            /\ ExecsOf(PrevCall(k)) = {}
            /\ timers[log[PrevCall(k)].timer].status = "cleared"
            /\ \A j \in ExecIdx : j > k =>
                   \E c \in CallIdx : k < c /\ c < j

C5_Witness ==
    \E k \in CancelIdx :
        /\ EarlyCancel(k)
        /\ log[k].t > log[PrevCall(k)].t
        /\ NextCall(k) = 0
        /\ now >= log[PrevCall(k)].t + delay
        /\ ExecIdx = {}

\* ======================================================================
\*              properties of the controller, continued
\* ======================================================================
Armed == {id \in 1..Len(timers) : timers[id].status = "armed"}
InFlight == {c \in Calls : calls[c].status = "inflight"}
\* timer id's callback runs in this step
FiresNow(id) ==
    /\ id \in 1..Len(timers)
    /\ timers[id].status = "armed"
    /\ timers'[id].status = "fired"
\* fetchData is invoked in this step, as call number c
DispatchedNow(c) ==
    /\ c = Len(calls) + 1
    /\ Len(calls') = c

\* C11: at every moment at most one fetch-cycle action is armed, counted
\* over all the debounced triggers the controller has created, and an
\* armed one belongs to the latest trigger.
C11_AtMostOneArmed ==
    /\ Cardinality(Armed) <= 1
    /\ \A id \in Armed : timers[id].cb.deb = Len(debs)

C11_Witness ==
    /\ Len(timers) >= 3
    /\ Cardinality(Armed) = 1
    /\ \E id \in 1..Len(timers) : timers[id].status = "cleared"
    /\ \E id \in 1..Len(timers) : timers[id].status = "fired"

\* C12 (as claimed): at no moment are two fetchData calls of the
\* controller both dispatched and not yet resolved or rejected.
C12_NoConcurrentCalls == Cardinality(InFlight) <= 1

\* C13: a query change or a teardown leaves every in-flight call in
\* flight, and when a call of a superseded or torn-down cycle settles its
\* continuation still writes: data and error (on success) or error (on
\* failure), then loading = false and loaded = true.
StaleCall(c) == Superseded(calls[c].deb) \/ ~mounted

C15_HungCallKeepsLoading ==
    [][\A c \in CallsOf(Len(debs)) :
         (/\ calls[c].status = "inflight"
          /\ calls'[c].status = "inflight"
          /\ query' = query
          /\ loading /\ ~loaded) => (loading' /\ ~loaded')]_vars

\* C16: whenever fetchData is invoked, it is by the latest cycle, its
\* argument equals the current query string, and it is not "".
C16_ArgIsCurrentQuery ==
    [][\A c \in 1..(Len(calls) + 1) :
         DispatchedNow(c) =>
             /\ calls'[c].arg = query
             /\ calls'[c].arg # ""
             /\ calls'[c].deb = Len(debs)]_vars

C16_Witness ==
    \E c \in Calls :
        /\ calls[c].deb >= 2
        /\ calls[c].arg = query
        /\ calls[c].arg # debs[1].query
        /\ calls[c].arg # debs[calls[c].deb - 1].query

\* C17: a query change leaves data, loading, loaded and error (and the
\* calls) as they are; visible state changes only in a step where a timer
\* fires or an in-flight call completes; and a fetch-cycle action runs only
\* for the latest query change, not earlier than delay after it.
C17_QueryChangeFrame ==
    [][/\ (query' # query) => (VisibleUnchanged /\ calls' = calls)
       /\ ~VisibleUnchanged =>
              \/ \E id \in 1..Len(timers) : FiresNow(id)
              \/ \E c \in Calls : Settles(c)
       /\ \A id \in 1..Len(timers) :
              FiresNow(id) =>
                  /\ timers[id].cb.deb = Len(debs)
                  /\ now >= debs[Len(debs)].at + delay]_vars

C17_Witness ==
    /\ Len(debs) >= 2
    /\ timers[TimerOf(Len(debs))].status = "armed"
    /\ now > debs[Len(debs)].at
    /\ now < debs[Len(debs)].at + delay
    /\ loaded
    /\ data # Absent

\* C18: when the fetch-cycle action fires for an empty query it sets
\* loaded = false, data = absent, loading = false, leaves error as it was
\* and calls fetchData not at all.
C18_EmptyFireFrame ==
    [][\A id \in 1..Len(timers) :
         (FiresNow(id) /\ debs[timers[id].cb.deb].query = "") =>
             /\ ~loaded'
             /\ data' = Absent
             /\ ~loading'
             /\ error' = error
             /\ calls' = calls]_vars

C18_Witness ==
    /\ query = ""
    /\ CycleFired(Len(debs))
    /\ error # Absent
    /\ ~loaded /\ ~loading
    /\ data = Absent

\* C19: when the fetch-cycle action fires for a non-empty query and
\* fetchData returns its promise, loaded = false, loading = true,
\* data = absent and error is as it was; error goes from present to
\* absent only in a step where a call resolves.
C19_LoadingFireFrame ==
    [][/\ \A id \in 1..Len(timers) :
            (/\ FiresNow(id)
             /\ debs[timers[id].cb.deb].query # ""
             /\ DispatchedNow(Len(calls) + 1)
             /\ calls'[Len(calls')].status = "inflight") =>
                 /\ ~loaded'
                 /\ loading'
                 /\ data' = Absent
                 /\ error' = error
       /\ (error # Absent /\ error' = Absent) =>
              \E c \in Calls : ResolvesNow(c)]_vars

C19_Witness ==
    /\ loading /\ ~loaded
    /\ data = Absent
    /\ error # Absent
    /\ \E c \in CallsOf(Len(debs)) : calls[c].status = "inflight"

\* C20: teardown clears the armed timer; after teardown no fetch-cycle
\* action fires, no timer is armed and fetchData is not invoked again.
C20_TeardownStopsCycles ==
    [][/\ (mounted /\ ~mounted') =>
              \A id \in 1..Len(timers') : timers'[id].status # "armed"
       /\ ~mounted =>
              /\ ~mounted'
              /\ \A id \in 1..Len(timers) : ~FiresNow(id)
              /\ Len(timers') = Len(timers)
              /\ Len(calls') = Len(calls)]_vars

C20_Witness ==
    /\ ~mounted
    /\ query # ""
    /\ timers[TimerOf(Len(debs))].status = "cleared"
    /\ now >= timers[TimerOf(Len(debs))].due
    /\ CallsOf(Len(debs)) = {}

\* ---------------------------------------------------------- highlightMatch
InitHighlight ==
    /\ now = 0
    /\ delay = 1
    /\ timers = <<>>
    /\ mounted = FALSE
    /\ query = ""
    /\ data = Absent
    /\ loading = FALSE
    /\ loaded = FALSE
    /\ error = Absent
    /\ debs = <<>>
    /\ calls = <<>>
    /\ timerId = NoTimer
    /\ log = <<>>
    /\ hText \in Strings(MaxTextLen)
    /\ hQuery \in Strings(MaxQueryLen)
    /\ hResult = NotCalled
    /\ focused = FALSE

\* highlightMatch(hText, hQuery) is called and returns.
CallHighlight ==
    /\ hResult = NotCalled
    /\ hResult' = HighlightMatch(hText, hQuery)
    /\ UNCHANGED <<now, delay, timers, ctlVars, debVars, hText, hQuery,
                   focused>>

NextHighlight == CallHighlight

SpecHighlight == InitHighlight /\ [][NextHighlight]_vars

\* C14 (as claimed): highlightMatch finds the first case-insensitive
\* occurrence of query in text; when there is one it returns prefix,
\* emphasized, suffix whose concatenation is text, emphasized has the
\* length of query and equals it ignoring case, and prefix ends where the
\* first occurrence starts; when there is none it returns text unmodified.
EqIgnoreCase(a, b) == ToLowerCase(a) = ToLowerCase(b)
Occurrences(text, q) ==
    {i \in 0..(Len(text) - Len(q)) :
        EqIgnoreCase(SubSeq(text, i + 1, i + Len(q)), q)}

C14_HighlightFirstMatch ==
    hResult # NotCalled =>
        LET O == Occurrences(hText, hQuery) IN
        IF O = {}
        THEN hResult = [kind |-> "text", parts |-> <<hText>>]
        ELSE /\ hResult.kind = "fragment"
             /\ hResult.parts[1] \o hResult.parts[2] \o hResult.parts[3]
                    = hText
             /\ Len(hResult.parts[2]) = Len(hQuery)
             /\ EqIgnoreCase(hResult.parts[2], hQuery)
             /\ \A i \in O : Len(hResult.parts[1]) <= i

\* ======================================================================
\*                     the controller under fairness
\* ======================================================================
\* The event loop runs every due timer callback, time passes, and every
\* dispatched fetchData call eventually resolves or rejects.
Fairness ==
    /\ WF_vars(Tick)
    /\ \A id \in 1..MaxCycles :
           WF_vars(FireEmpty(id) \/ FireDispatch(id) \/ FireThrow(id))
    /\ \A c \in 1..MaxCycles : WF_vars(Resolve(c) \/ Reject(c))

FairSpec == Spec /\ Fairness

\* the latest cycle's timer comes due within the modelled time
LatestDueInTime == timers[TimerOf(Len(debs))].due <= MaxTime

\* C21: under fairness, once the query stays at a non-empty value (and
\* the controller stays mounted) loading = false and loaded = true
\* eventually hold for good; and in every state a query change is
\* accepted and arms a new cycle for the new query, delay from now.
C21_SettlesAndRestarts ==
    /\ (<>[](mounted /\ query # "" /\ LatestDueInTime))
           => <>[](~loading /\ loaded)
    /\ [](\A q \in Queries :
             (mounted /\ q # query /\ Len(debs) < MaxCycles)
                 => ENABLED SetQuery(q))
    /\ [][(query' # query) =>
             /\ Len(debs') = Len(debs) + 1
             /\ debs'[Len(debs')].query = query'
             /\ Armed' = {debs'[Len(debs')].timerId}
             /\ timers'[Len(timers')].due = now + delay]_vars

C21_Witness ==
    /\ mounted
    /\ query # ""
    /\ Len(debs) >= 2
    /\ CycleFired(Len(debs))
    /\ InFlight = {}
    /\ \E c \in CallsOf(Len(debs) - 1) : TRUE
    /\ ~loading /\ loaded

\* ======================================================================
\*            properties of one debounced trigger, continued
\* ======================================================================
\* a caller's event (trigger call or cancel) is appended in this step
CancelsNow ==
    /\ Len(log') = Len(log) + 1
    /\ log'[Len(log')].type = "cancel"
CallsNow ==
    /\ Len(log') = Len(log) + 1
    /\ log'[Len(log')].type = "call"
ExecsNow ==
    /\ Len(log') = Len(log) + 1
    /\ log'[Len(log')].type = "exec"
PrevCaller(k) ==
    LET S == {j \in CallerEvents : j < k} IN IF S = {} THEN 0 ELSE Max(S)

\* C22: cancel can be called in every state, never runs func and always
\* leaves the handle empty; with
\* no timer pending (before any call, after func has executed, or right
\* after another cancel) it changes no timer; and the next trigger call
\* arms a timer for delay from then.
C22_CancelNoOpIdempotent ==
    /\ [](Cardinality(CallerEvents) < MaxEvents => ENABLED CancelCall)
    /\ [](\A j \in ExecIdx :
             PrevCaller(j) # 0 /\ log[PrevCaller(j)].type = "call")
    /\ [][CancelsNow =>
             /\ timerId' = NoTimer
             /\ Armed' = {}
             /\ (Armed = {}) => timers' = timers
             /\ \A id \in 1..Len(timers) :
                    timers[id].status = "fired" =>
                        timers'[id].status = "fired"]_vars
    /\ [][CallsNow =>
             /\ Armed' = {timerId'}
             /\ timerId' = Len(timers')
             /\ timers'[timerId'].due = now + delay]_vars

C22_Witness ==
    /\ Len(log) >= 5
    /\ log[1].type = "cancel"
    /\ log[2].type = "call"
    /\ log[3].type = "exec"
    /\ log[4].type = "cancel"
    /\ log[5].type = "cancel"
    /\ Armed = {}
    /\ timerId = NoTimer

\* C23: the handle is not reset when the timer fires, yet every trigger
\* call arms a fresh timer, also after func has executed or after a
\* cancel; func executes once for every call whose timer fired (the last
\* call of its burst), with that call's arguments, and never without a
\* trigger call before it.
C23_TriggerReusable ==
    /\ [](/\ \A k \in CallIdx :
               /\ log[k].timer \in 1..Len(timers)
               /\ timers[log[k].timer].due = log[k].t + delay
               /\ \A j \in CallIdx : j < k => log[j].timer < log[k].timer
               /\ timers[log[k].timer].status = "armed" =>
                      (timerId = log[k].timer /\ NextCall(k) = 0)
          /\ \A j \in ExecIdx :
               /\ PrevCaller(j) \in CallIdx
               /\ log[PrevCaller(j)].timer = log[j].timer
               /\ log[PrevCaller(j)].args = log[j].args
          /\ Cardinality(ExecIdx) =
                 Cardinality({k \in CallIdx :
                                 timers[log[k].timer].status = "fired"})
          /\ Cardinality(Armed) <= 1)
    /\ [][ExecsNow => timerId' = timerId /\ timerId # NoTimer]_vars

C23_Witness ==
    \E k \in CallIdx, m \in CallIdx, j \in ExecIdx, i \in ExecIdx :
        /\ k < j /\ j < m /\ m < i
        /\ log[j].timer = log[k].timer
        /\ log[i].timer = log[m].timer
        /\ log[k].args # log[m].args
        /\ PrevCall(k) # 0
        /\ log[k].t - log[PrevCall(k)].t < delay

\* C24 (as claimed): data and error are never both present.
C24_DataExcludesError == (data # Absent) => (error = Absent)

\* ======================================================================
\*                       the Autocomplete component
\* ======================================================================
\* FRUIT_DATA of ./mocks is an array of {id, name}; its contents are an
\* input here: any subset of a pool of items whose names match both
\* queries, only the shorter one, neither, or start with U+0130.
FruitPool ==
    {[id |-> 1, name |-> <<"A", "p", "p", "l", "e">>],
     [id |-> 2, name |-> <<"A", "v", "o", "c", "a", "d", "o">>],
     [id |-> 3, name |-> <<"f", "i", "g">>],
     [id |-> 4, name |-> <<"Idot", "a", "p">>]}
FruitDataSets == SUBSET FruitPool

\* the code units of a query string
QueryUnits(q) ==
    CASE q = "" -> <<>>
      [] q = "a" -> <<"a">>
      [] q = "ap" -> <<"a", "p">>

\* variant: the mock returns the whole list
GetFruitListUnfiltered(fd, q) == fd

\* getFruitListByQuery(query) over FRUIT_DATA = fd: the items whose
\* lower-cased name includes the lower-cased query
GetFruitListByQuery(fd, q) ==
    {item \in fd :
        IndexOf(ToLowerCase(item.name), ToLowerCase(QueryUnits(q))) # -1}

\* the array a resolved call delivered
Items(fd, r) ==
    IF r.kind = "response" THEN GetFruitListByQuery(fd, calls[r.call].arg)
    ELSE {}

\* const dropDownVisible = (loading || loaded) && query.length > 0 && focused
DropDownVisible == (loading \/ loaded) /\ query # "" /\ focused

\* the <ul> of results is rendered in a visible dropdown
ListShown(fd) ==
    /\ DropDownVisible
    /\ ~loading
    /\ loaded
    /\ data # Absent
    /\ Items(fd, data) # {}

\* highlightMatch(item.name, query) of the rendered <li>
Rendered(item) == HighlightMatch(item.name, QueryUnits(query))

InitAutocomplete ==
    /\ Init
    /\ query = ""

\* onFocus / onBlur of the input
SetFocused(b) ==
    /\ mounted
    /\ focused # b
    /\ focused' = b
    /\ UNCHANGED <<now, delay, timers, ctlVars, debVars, hlVars>>

\* The mock's setTimeout(..., 500) fires and resolves the promise of call
\* c; the mock never rejects, and its timers fire in the order they were set.
ApiResolve(c) ==
    /\ \A b \in 1..(c - 1) : calls[b].status # "inflight"
    /\ Resolve(c)

NextAutocomplete ==
    \/ Tick
    \/ \E q \in Queries : SetQuery(q)
    \/ \E b \in BOOLEAN : SetFocused(b)
    \/ Unmount
    \/ \E id \in 1..Len(timers) : FireEmpty(id)
    \/ \E id \in 1..Len(timers) : FireDispatch(id)
    \/ \E c \in 1..Len(calls) : ApiResolve(c)

SpecAutocomplete == InitAutocomplete /\ [][NextAutocomplete]_vars

====
